---- MODULE Spec2Model ----
(***************************************************************************)
(* Model of lambda_function.py: the Alexa skill that drives an irrigation  *)
(* pump through an AWS IoT device shadow and logs irrigation events in a   *)
(* DynamoDB table.                                                         *)
(*                                                                         *)
(* Time is counted in ticks, TicksPerSec ticks to the second.  A Python    *)
(* None is the empty tuple, a present value v is <<v>>.  Durations and     *)
(* volumes rounded to two decimals are integers counting hundredths.       *)
(***************************************************************************)
EXTENDS Integers, Sequences, FiniteSets, TLC

\* ---------------------------------------------------------------- bounds
TicksPerSec == 2          \* resolution of the clock
MaxRequests == 3          \* invocations per behaviour

\* ------------------------------------------------------ program constants
FLOW_RATE == 5
THRESHOLD == 1300

thing_name == "thing"
user_id == "user"

None == <<>>
Some(v) == <<v>>

\* time.time() when the process is first loaded: any instant after 1970
Epoch == 100 * TicksPerSec

\* time that may pass between two invocations: a tick, or two minutes
Delays == {1, 120 * TicksPerSec}

\* what the shadow's reported state may carry under "humedad"
Humedades == {None, Some(1000), Some(1300), Some(1400)}

\* the same, as far as a deactivation tells them apart: absent or present
HumedadesDesactivar == {None, Some(1000)}

VARIABLES
    now,                \* time.time(), in ticks
    start_time_global,  \* None, or <<time the session was opened>>
    table,              \* the DynamoDB table: ID -> item
    bomba,              \* desired pump state in the shadow: None, <<"ON">>, <<"OFF">>
    speak_output,       \* what the last invocation answered
    intent,             \* the request the last invocation served
    fault,              \* the gateway call that raised in the last invocation
    prev_start,         \* start_time_global when the last invocation began
    called_at,          \* time.time() when the last invocation began
    lectura,            \* <<humedad>> the last invocation read from the shadow, or <<>>
    put_calls,          \* put_item calls of the last invocation: [item, ok]
    put_done,           \* number of put_item calls that succeeded so far
    requests,           \* invocations so far
    waited              \* time has passed since the last invocation

vars == <<now, start_time_global, table, bomba, speak_output, intent, fault,
          prev_start, called_at, lectura, put_calls, put_done, requests, waited>>

\* ------------------------------------------------------------ conversions

\* Python truth value of start_time_global: None and 0.0 are false
Truthy(s) == s /= None /\ s[1] /= 0

\* int(t): the whole seconds of a time
IntSeconds(t) == t \div TicksPerSec

\* time.strftime("%Y-%m-%dT%H:%M:%SZ", time.gmtime(t)): the time cut to the second
StrfTime(t) == [utc |-> IntSeconds(t)]

\* round(num/den, 2) in hundredths, for num >= 0 and den > 0: the nearest
\* hundredth; on an exact tie the float's last bit decides, so either
Round2(num, den) ==
    LET q == (100 * num) \div den
        r == (100 * num) % den
    IN  IF 2 * r < den THEN {q}
        ELSE IF 2 * r > den THEN {q + 1}
        ELSE {q, q + 1}

\* round((end - start) / 60, 2)
RoundDuration(start, end) == Round2(end - start, 60 * TicksPerSec)

\* variant: the volume taken from the duration already rounded
RoundVolume_FromRounded(start, end) ==
    {d * FLOW_RATE : d \in RoundDuration(start, end)}

\* round(((end - start) / 60) * FLOW_RATE, 2)
RoundVolume(start, end) == Round2((end - start) * FLOW_RATE, 60 * TicksPerSec)

\* f"{int(end_time)}-{thing_name}"
IntEventId(t) == <<"int", IntSeconds(t), thing_name>>

\* f"{time.time()}-{thing_name}": the float is printed with its fraction
FloatEventId(t) == <<"float", t, thing_name>>

\* ------------------------------------------------------------ log store

Item(evento_id, st, et, duration, water_volume, soil_moisture, system_status, request_time) ==
    [ID |-> evento_id, StartTime |-> st, EndTime |-> et,
     Duration |-> duration, WaterVolume |-> water_volume,
     SoilMoisture |-> soil_moisture, ThingID |-> thing_name,
     SystemStatus |-> system_status, RequestTime |-> request_time,
     UserID |-> user_id]

\* table.put_item(Item=item): the item replaces any item of the same ID
PutItem(tbl, item) ==
    [k \in DOMAIN tbl \cup {item.ID} |-> IF k = item.ID THEN item ELSE tbl[k]]

\* variant: insertar_datos_riego without its try/except
PutItemEscapes_NoTry(putOk) == ~putOk

\* whether a put_item that raises reaches the caller of insertar_datos_riego:
\* the try/except of lines 47-64 logs it and returns
PutItemEscapes(putOk) == FALSE

\* insertar_datos_riego; putOk: put_item returns
insertar_datos_riego(item, putOk) ==
    /\ put_calls' = <<[item |-> item, ok |-> putOk]>>
    /\ table' = IF putOk THEN PutItem(table, item) ELSE table
    /\ put_done' = IF putOk THEN put_done + 1 ELSE put_done

NoInsert == put_calls' = <<>> /\ UNCHANGED <<table, put_done>>

\* ------------------------------------------------------------ invocations

Begin(name) ==
    /\ requests < MaxRequests
    /\ requests' = requests + 1
    /\ intent' = name
    /\ prev_start' = start_time_global
    /\ called_at' = now
    /\ waited' = FALSE

Init ==
    /\ now = Epoch
    /\ start_time_global = None
    /\ table = <<>>
    /\ bomba = None
    /\ speak_output = <<"">>
    /\ intent = "none"
    /\ fault = "none"
    /\ prev_start = None
    /\ called_at = Epoch
    /\ lectura = <<>>
    /\ put_calls = <<>>
    /\ put_done = 0
    /\ requests = 0
    /\ waited = FALSE

\* time passes between two invocations
Tick ==
    /\ ~waited
    /\ requests < MaxRequests
    /\ \E d \in Delays : now' = now + d
    /\ waited' = TRUE
    /\ UNCHANGED <<start_time_global, table, bomba, speak_output, intent, fault,
                   prev_start, called_at, lectura, put_calls, put_done, requests>>

\* variant: the session is kept across the reload, as if it were persisted
ColdStart_Keeps ==
    /\ start_time_global /= None
    /\ start_time_global' = start_time_global
    /\ intent' = "ColdStart"
    /\ prev_start' = start_time_global
    /\ called_at' = now
    /\ speak_output' = <<"">>
    /\ fault' = "none"
    /\ lectura' = <<>>
    /\ put_calls' = <<>>
    /\ UNCHANGED <<table, put_done, now, bomba, requests, waited>>

\* the module is loaded again by a cold start: line 67 runs anew, while the
\* shadow and the table live outside the process (with no session held the
\* reload changes nothing the handlers read, so it is left out)
ColdStart ==
    /\ start_time_global /= None
    /\ start_time_global' = None
    /\ intent' = "ColdStart"
    /\ prev_start' = start_time_global
    /\ called_at' = now
    /\ speak_output' = <<"">>
    /\ fault' = "none"
    /\ lectura' = <<>>
    /\ NoInsert
    /\ UNCHANGED <<now, bomba, requests, waited>>

\* LaunchRequestHandler.handle
LaunchRequest ==
    /\ Begin("LaunchRequest")
    /\ speak_output' = <<"Bienvenido">>
    /\ fault' = "none"
    /\ lectura' = <<>>
    /\ NoInsert
    /\ UNCHANGED <<now, start_time_global, bomba>>

\* variant: no settle delay
Sleep_Skipped(t) == t

\* time.sleep(1)
Sleep(t) == t + TicksPerSec

\* ActivarRegadorIntentHandler.handle; updOk: update_thing_shadow returns
ActivarRegadorIntent(updOk) ==
    /\ Begin("ActivarRegadorIntent")
    /\ start_time_global' = Some(now)      \* line 86, before the try
    /\ IF updOk
       THEN /\ bomba' = Some("ON")
            /\ speak_output' = <<"Activado">>
            /\ fault' = "none"
       ELSE /\ bomba' = bomba
            /\ speak_output' = <<"ErrorActivar">>
            /\ fault' = "update"
    /\ lectura' = <<>>
    /\ NoInsert
    /\ UNCHANGED now

\* the except clause of DesactivarRegadorIntentHandler.handle
DesactivarError(call) ==
    /\ speak_output' = <<"ErrorDesactivar">>
    /\ fault' = call
    /\ UNCHANGED start_time_global

\* the branch "if start_time_global" of DesactivarRegadorIntentHandler.handle,
\* once the shadow has been read
DesactivarCerrar(end_time, humedad, putOk) ==
    \E duration \in RoundDuration(start_time_global[1], end_time),
       water_volume \in RoundVolume(start_time_global[1], end_time) :
       /\ insertar_datos_riego(
              Item(IntEventId(end_time),
                   StrfTime(start_time_global[1]),
                   Some(StrfTime(end_time)),
                   Some(duration), Some(water_volume),
                   humedad, "Desactivado", StrfTime(end_time)),
              putOk)
       /\ IF PutItemEscapes(putOk)
          THEN DesactivarError("put")
          ELSE /\ speak_output' = <<"Desactivado", water_volume>>
               /\ fault' = "none"
               /\ start_time_global' = None

\* variant: a close of zero length is logged without a session
DesactivarSinSesion_LogsClose ==
    /\ speak_output' = <<"NoActivado">>
    /\ fault' = "none"
    /\ lectura' = <<>>
    /\ insertar_datos_riego(
           Item(IntEventId(now), StrfTime(now), Some(StrfTime(now)),
                Some(0), Some(0), None, "Desactivado", StrfTime(now)),
           TRUE)
    /\ UNCHANGED <<now, start_time_global>>

\* variant: the answer of a close given without a session
DesactivarSinSesion_Answers ==
    /\ speak_output' = <<"Desactivado", 0>>
    /\ fault' = "none"
    /\ lectura' = <<>>
    /\ NoInsert
    /\ UNCHANGED <<now, start_time_global>>

\* the branch "else" of DesactivarRegadorIntentHandler.handle
DesactivarSinSesion ==
    /\ speak_output' = <<"NoActivado">>
    /\ fault' = "none"
    /\ lectura' = <<>>
    /\ NoInsert
    /\ UNCHANGED <<now, start_time_global>>

\* DesactivarRegadorIntentHandler.handle; updOk, getOk: the shadow calls
\* return; humedad: what the shadow reports; putOk: put_item returns
DesactivarRegadorIntent(updOk, getOk, humedad, putOk) ==
    LET end_time == now IN
    /\ Begin("DesactivarRegadorIntent")
    /\ IF ~updOk
       THEN /\ DesactivarError("update")
            /\ lectura' = <<>>
            /\ NoInsert
            /\ UNCHANGED <<now, bomba>>
       ELSE /\ bomba' = Some("OFF")
            /\ IF Truthy(start_time_global)
               THEN /\ now' = Sleep(now)
                    /\ IF ~getOk
                       THEN /\ DesactivarError("get")
                            /\ lectura' = <<>>
                            /\ NoInsert
                       ELSE /\ lectura' = <<humedad>>
                            /\ DesactivarCerrar(end_time, humedad, putOk)
               ELSE DesactivarSinSesion

\* estado = "húmedo" if humedad < 1300 else "seco"
Estado(h) == IF h < 1300 THEN "humedo" ELSE "seco"

\* the test "if humedad > 1300" that picks the logging branch
RamaSeca(h) == h > THRESHOLD

\* variant: the except clause logs the error and answers nothing
ConsultarError_Mute(call) ==
    /\ speak_output' = <<"">>
    /\ fault' = call

\* the except clause of ConsultarHumedadIntentHandler.handle
ConsultarError(call) ==
    /\ speak_output' = <<"ErrorHumedad">>
    /\ fault' = call

\* variant: no test for None, so that "humedad < 1300" raises TypeError
ConsultarSinHumedad_Raises ==
    /\ ConsultarError("compare")
    /\ NoInsert
    /\ UNCHANGED start_time_global

\* the branch "if humedad is None"
ConsultarSinHumedad ==
    /\ speak_output' = <<"NoHumedad">>
    /\ fault' = "none"
    /\ NoInsert
    /\ UNCHANGED start_time_global

\* what the handler answers once an item has been handed to the table
ConsultarResponde(h, putOk) ==
    IF PutItemEscapes(putOk)
    THEN ConsultarError("put")
    ELSE speak_output' = <<"Humedad", h, Estado(h)>> /\ fault' = "none"

\* variant: the dry reading is logged but no session is opened
ConsultarSeco_NoOpen(h, t, putOk) ==
    /\ UNCHANGED start_time_global
    /\ insertar_datos_riego(
           Item(FloatEventId(t), StrfTime(t), None, None, None,
                Some(h), "Consulta Humedad", StrfTime(t)),
           putOk)

\* the branch "if humedad > 1300": a session is opened at t and logged
ConsultarSeco(h, t, putOk) ==
    /\ start_time_global' = Some(t)
    /\ insertar_datos_riego(
           Item(FloatEventId(t), StrfTime(t), None, None, None,
                Some(h), "Consulta Humedad", StrfTime(t)),
           putOk)

\* the branch "else: if start_time_global": the open session is logged with
\* its duration and volume; nothing is assigned to start_time_global
ConsultarHumedoAbierto(h, t, putOk) ==
    \E duration \in RoundDuration(start_time_global[1], t),
       water_volume \in RoundVolume(start_time_global[1], t) :
       /\ insertar_datos_riego(
              Item(FloatEventId(t), StrfTime(start_time_global[1]),
                   Some(StrfTime(t)),
                   Some(duration), Some(water_volume),
                   Some(h), "Consulta Humedad", StrfTime(t)),
              putOk)
       /\ UNCHANGED start_time_global

\* variant: the moist reading is logged as a baseline, no session is opened
ConsultarHumedoCerrado_LogOnly(h, t, putOk) ==
    /\ UNCHANGED start_time_global
    /\ insertar_datos_riego(
           Item(FloatEventId(t), StrfTime(t), None, None, None,
                Some(h), "Consulta Humedad", StrfTime(t)),
           putOk)

\* the branch "else: else": a session is opened at t and logged
ConsultarHumedoCerrado(h, t, putOk) ==
    /\ start_time_global' = Some(t)
    /\ insertar_datos_riego(
           Item(FloatEventId(t), StrfTime(t), None, None, None,
                Some(h), "Consulta Humedad", StrfTime(t)),
           putOk)

\* ConsultarHumedadIntentHandler.handle; pubOk, getOk: publish and
\* get_thing_shadow return; humedad: what the shadow reports; putOk:
\* put_item returns.  The time.time() reads of lines 163-201 are a few
\* statements apart and are taken to fall in one tick, t
ConsultarHumedadIntent(pubOk, getOk, humedad, putOk) ==
    /\ Begin("ConsultarHumedadIntent")
    /\ UNCHANGED bomba
    /\ IF ~pubOk
       THEN /\ ConsultarError("publish")
            /\ lectura' = <<>>
            /\ NoInsert
            /\ UNCHANGED <<now, start_time_global>>
       ELSE /\ now' = Sleep(now)
            /\ IF ~getOk
               THEN /\ ConsultarError("get")
                    /\ lectura' = <<>>
                    /\ NoInsert
                    /\ UNCHANGED start_time_global
               ELSE /\ lectura' = <<humedad>>
                    /\ IF humedad = None
                       THEN ConsultarSinHumedad
                       ELSE LET h == humedad[1]
                                t == Sleep(now)
                            IN  /\ ConsultarResponde(h, putOk)
                                /\ IF RamaSeca(h)
                                   THEN ConsultarSeco(h, t, putOk)
                                   ELSE IF Truthy(start_time_global)
                                   THEN ConsultarHumedoAbierto(h, t, putOk)
                                   ELSE ConsultarHumedoCerrado(h, t, putOk)

\* the inputs <<updOk, getOk, humedad, putOk>> of a deactivation in the
\* current state: an input the run never reaches (the shadow read after a
\* failed update or without a session, the put_item without a read) is left
\* at its default, since it changes nothing
DesactivarInputs ==
    {i \in BOOLEAN \X BOOLEAN \X HumedadesDesactivar \X BOOLEAN :
        LET reads == i[1] /\ Truthy(start_time_global)
            puts == reads /\ i[2]
        IN  (reads \/ i[2]) /\ (puts \/ (i[3] = None /\ i[4]))}

\* the inputs <<pubOk, getOk, humedad, putOk>> of a moisture query, likewise
ConsultarInputs ==
    {i \in BOOLEAN \X BOOLEAN \X Humedades \X BOOLEAN :
        LET reads == i[1] /\ i[2]
            puts == reads /\ i[3] /= None
        IN  (i[1] \/ i[2]) /\ (reads \/ i[3] = None) /\ (puts \/ i[4])}

Next ==
    \/ Tick
    \/ ColdStart
    \/ LaunchRequest
    \/ \E updOk \in BOOLEAN : ActivarRegadorIntent(updOk)
    \/ \E i \in DesactivarInputs :
           DesactivarRegadorIntent(i[1], i[2], i[3], i[4])
    \/ \E i \in ConsultarInputs :
           ConsultarHumedadIntent(i[1], i[2], i[3], i[4])

Spec == Init /\ [][Next]_vars
\* ------------------------------------------------------------ properties

Desactivar == "DesactivarRegadorIntent"
Consultar == "ConsultarHumedadIntent"

Abs(x) == IF x < 0 THEN -x ELSE x

\* q hundredths is num/den rounded to two decimals
IsRounded(q, num, den) == 2 * Abs(100 * num - q * den) <= den

\* the last invocation handed an item to the table
Logged == put_calls /= <<>>
LoggedItem == put_calls[1].item

\* the last invocation was a moisture query that read the value h
Read(h) == intent = Consultar /\ lectura = <<Some(h)>>

\* the last invocation has just returned: now is still the time it read last
JustReturned == ~waited

\* C1: the record a deactivation logs for the session opened at start and
\* closed at end has duration (end - start)/60 rounded to 2 decimals and
\* volume (end - start)/60 x 5 rounded to 2 decimals; 120 s give 2.00 and
\* 10.00; the volume spoken is the volume logged.
C1_DesactivarRecord ==
    (intent = Desactivar /\ Logged) =>
        LET elapsed == called_at - prev_start[1]
            minute == 60 * TicksPerSec
        IN  /\ Len(put_calls) = 1
            /\ elapsed >= 0
            /\ LoggedItem.Duration /= None
            /\ IsRounded(LoggedItem.Duration[1], elapsed, minute)
            /\ LoggedItem.WaterVolume /= None
            /\ IsRounded(LoggedItem.WaterVolume[1], elapsed * 5, minute)
            /\ (elapsed = 120 * TicksPerSec =>
                    LoggedItem.Duration = <<200>> /\ LoggedItem.WaterVolume = <<1000>>)
            /\ speak_output = <<"Desactivado", LoggedItem.WaterVolume[1]>>
            /\ (put_calls[1].ok => /\ LoggedItem.ID \in DOMAIN table
                                   /\ table[LoggedItem.ID] = LoggedItem)

C1_Witness ==
    /\ intent = Desactivar /\ Logged /\ put_calls[1].ok
    /\ called_at - prev_start[1] = 120 * TicksPerSec
    /\ LoggedItem.Duration = <<200>>
    /\ speak_output = <<"Desactivado", 1000>>

\* C2 as stated: a deactivation with no session open logs nothing, answers
\* "was not active" and leaves the session closed.
C2_SinSesionNoActivado ==
    (intent = Desactivar /\ prev_start = None) =>
        /\ ~Logged
        /\ speak_output = <<"NoActivado">>
        /\ start_time_global = None

\* C2 amended: a deactivation with no session open logs nothing and leaves
\* the session closed; it answers "was not active" when the shadow update
\* returns, and the deactivation error message when the update raises.
C2_SinSesion ==
    (intent = Desactivar /\ prev_start = None) =>
        /\ ~Logged
        /\ start_time_global = None
        /\ (fault = "none" => speak_output = <<"NoActivado">>)
        /\ (fault /= "none" => fault = "update" /\ speak_output = <<"ErrorDesactivar">>)

C2_Witness ==
    /\ intent = Desactivar /\ prev_start = None /\ fault = "none"
    /\ speak_output = <<"NoActivado">>
    /\ \E k \in DOMAIN table : table[k].SystemStatus = "Desactivado"

\* C3: a dry reading with a session open keeps its start_time and logs
\* nothing; a moist reading with no session open keeps it closed and logs
\* nothing.
C3_Idempotent ==
    \A h \in {1000, 1300, 1400} :
        (Read(h) /\ fault = "none") =>
            /\ (h > 1300 /\ prev_start /= None) =>
                   start_time_global = prev_start /\ ~Logged
            /\ (h <= 1300 /\ prev_start = None) =>
                   start_time_global = None /\ ~Logged

\* C4: the status spoken is "moist" exactly for readings up to 1300, and with
\* a session open the record logged is a closing one exactly when the status
\* spoken is "moist".
C4_ThresholdMoist ==
    \A h \in {1000, 1300, 1400} :
        (Read(h) /\ fault = "none") =>
            /\ speak_output[1] = "Humedad" /\ speak_output[2] = h
            /\ (speak_output[3] = "humedo") <=> (h <= 1300)
            /\ (prev_start /= None /\ Logged) =>
                   ((speak_output[3] = "humedo") <=> (LoggedItem.EndTime /= None))

\* C5: a moist reading at time t with a session open since start logs one
\* closing record (end_time t, duration (t - start)/60, volume duration x 5)
\* and leaves no session open.
C5_MoistCloses ==
    \A h \in {1000, 1300} :
        (Read(h) /\ fault = "none" /\ prev_start /= None /\ JustReturned) =>
            LET elapsed == now - prev_start[1]
                minute == 60 * TicksPerSec
            IN  /\ Len(put_calls) = 1
                /\ LoggedItem.EndTime = Some(StrfTime(now))
                /\ IsRounded(LoggedItem.Duration[1], elapsed, minute)
                /\ IsRounded(LoggedItem.WaterVolume[1], elapsed * 5, minute)
                /\ start_time_global = None

\* C6: no two closing records of the log carry the same session start.
C6_OneClosePerSession ==
    \A a, b \in DOMAIN table :
        (a /= b /\ table[a].EndTime /= None /\ table[b].EndTime /= None) =>
            table[a].StartTime /= table[b].StartTime

\* C7: an invocation in which a shadow or publish call raised answers with
\* an error message and leaves start_time_global as it found it.
C7_FaultKeepsSession ==
    fault \in {"update", "get", "publish"} =>
        /\ speak_output[1] \in {"ErrorActivar", "ErrorDesactivar", "ErrorHumedad"}
        /\ start_time_global = prev_start

\* C8: when put_item raises, a deactivation has still sent OFF, answers
\* "deactivated, N liters" and clears the session; a moisture query still
\* answers with the moisture.
C8_PutFailureSwallowed ==
    (Logged /\ ~put_calls[1].ok) =>
        /\ intent \in {Desactivar, Consultar}
        /\ fault = "none"
        /\ intent = Desactivar =>
               /\ bomba = Some("OFF")
               /\ speak_output = <<"Desactivado", LoggedItem.WaterVolume[1]>>
               /\ start_time_global = None
        /\ intent = Consultar =>
               /\ speak_output[1] = "Humedad"
               /\ Some(speak_output[2]) = LoggedItem.SoilMoisture

C8_Witness ==
    /\ intent = Desactivar /\ Logged /\ ~put_calls[1].ok
    /\ prev_start /= None
    /\ speak_output[1] = "Desactivado"
    /\ LoggedItem.ID \notin DOMAIN table

\* C9: a moisture query whose shadow read carries no moisture answers
\* "cannot determine", logs nothing and leaves the session as it was.
C9_SinHumedad ==
    (intent = Consultar /\ lectura = <<None>>) =>
        /\ speak_output = <<"NoHumedad">>
        /\ fault = "none"
        /\ ~Logged
        /\ start_time_global = prev_start

C9_Witness ==
    /\ intent = Consultar /\ lectura = <<None>>
    /\ speak_output = <<"NoHumedad">>
    /\ start_time_global /= None
    /\ table /= <<>>

\* the clock second an event id was made in
SecondOf(id) == IF id[1] = "int" THEN id[2] ELSE IntSeconds(id[2])

OpenRecord(item, h, t) ==
    /\ item.StartTime = StrfTime(t)
    /\ item.EndTime = None
    /\ item.Duration = None
    /\ item.WaterVolume = None
    /\ item.SoilMoisture = Some(h)

\* C11: a dry reading (1400) with no session open opens a session at the
\* time of the reading and hands the table exactly one record, with no
\* end_time, duration or volume and with soil_moisture the reading.
C11_DryOpens ==
    (Read(1400) /\ prev_start = None /\ JustReturned) =>
        /\ fault = "none"
        /\ start_time_global = Some(now)
        /\ now > called_at
        /\ Len(put_calls) = 1
        /\ OpenRecord(LoggedItem, 1400, now)
        /\ (put_calls[1].ok => /\ LoggedItem.ID \in DOMAIN table
                               /\ table[LoggedItem.ID] = LoggedItem)

C11_Witness ==
    /\ Read(1400) /\ prev_start = None /\ JustReturned
    /\ start_time_global = Some(now)
    /\ put_calls[1].ok
    /\ put_done = 1
    /\ \E k \in DOMAIN table : table[k].EndTime = None /\ table[k].SoilMoisture = <<1400>>

Activar == "ActivarRegadorIntent"

\* C13: a moist reading with no session open hands the table an open-style
\* record (start_time the time of the reading, no end_time, duration or
\* volume) and opens a session, which the next deactivation or moist reading
\* finds open.
C13_MoistOpens ==
    \A h \in {1000, 1300} :
        (Read(h) /\ prev_start = None /\ JustReturned) =>
            /\ fault = "none"
            /\ start_time_global = Some(now)
            /\ now > 0
            /\ Len(put_calls) = 1
            /\ OpenRecord(LoggedItem, h, now)
            /\ (put_calls[1].ok => /\ LoggedItem.ID \in DOMAIN table
                                   /\ table[LoggedItem.ID] = LoggedItem)

\* a deactivation has closed the session a moist reading opened
C13_Witness ==
    /\ intent = Desactivar /\ Logged /\ requests = 2
    /\ speak_output[1] = "Desactivado"
    /\ \E k \in DOMAIN table :
           /\ table[k].EndTime = None
           /\ table[k].SoilMoisture = <<1000>>
           /\ table[k].StartTime = LoggedItem.StartTime

\* C14: an activation with a session open answers without error and leaves
\* the session's start_time as it was.
C14_ActivarKeepsStart ==
    (intent = Activar /\ prev_start /= None) =>
        /\ (fault = "none" => speak_output = <<"Activado">>)
        /\ start_time_global = prev_start

\* C15: every record handed to the table with an end_time comes from an
\* invocation that found a session open and carries that session's start;
\* a session's start is the time of the activation or moisture query that
\* set it; no stored record ends before it starts.
C15_CloseNeedsOpen ==
    /\ (Logged /\ LoggedItem.EndTime /= None) =>
           /\ intent \in {Desactivar, Consultar}
           /\ prev_start /= None
           /\ prev_start[1] <= called_at
           /\ LoggedItem.StartTime = StrfTime(prev_start[1])
           /\ LoggedItem.Duration /= None
           /\ LoggedItem.WaterVolume /= None
    /\ (start_time_global /= None /\ start_time_global /= prev_start) =>
           /\ intent \in {Activar, Consultar}
           /\ start_time_global[1] >= called_at
           /\ start_time_global[1] <= now
    /\ \A k \in DOMAIN table :
           table[k].EndTime /= None =>
               table[k].StartTime.utc <= table[k].EndTime[1].utc

C15_Witness ==
    /\ intent = Desactivar /\ Logged /\ put_calls[1].ok
    /\ \E a, b \in DOMAIN table :
           /\ table[a].EndTime = None
           /\ table[b].EndTime /= None
           /\ table[b].SystemStatus = "Desactivado"
           /\ table[a].StartTime = table[b].StartTime
           /\ table[b].StartTime.utc < table[b].EndTime[1].utc

\* the last invocation handed the table a record with duration and volume,
\* for a session that had lasted elapsed ticks
ClosedAt == IF intent = Desactivar THEN called_at ELSE now
LoggedClose ==
    /\ Logged
    /\ LoggedItem.Duration /= None
    /\ LoggedItem.WaterVolume /= None
    /\ (intent = Desactivar \/ JustReturned)

\* C16 as stated: for a session of whole seconds the stored volume is the
\* stored duration times 5.
C16_VolumeFromStored ==
    (LoggedClose /\ (ClosedAt - prev_start[1]) % TicksPerSec = 0) =>
        LoggedItem.WaterVolume[1] = LoggedItem.Duration[1] * 5

\* C16 amended: the stored volume is (end - start)/60 x 5 rounded to 2
\* decimals, the unrounded duration being used; it is within 0.03 of the
\* stored duration times 5, and a session of 1 s is stored with duration
\* 0.02 and volume 0.08.
C16_VolumeFromElapsed ==
    LoggedClose =>
        LET elapsed == ClosedAt - prev_start[1]
            minute == 60 * TicksPerSec
        IN  /\ IsRounded(LoggedItem.Duration[1], elapsed, minute)
            /\ IsRounded(LoggedItem.WaterVolume[1], elapsed * 5, minute)
            /\ Abs(LoggedItem.WaterVolume[1] - LoggedItem.Duration[1] * 5) <= 3
            /\ (elapsed = TicksPerSec =>
                    LoggedItem.Duration = <<2>> /\ LoggedItem.WaterVolume = <<8>>)

C16_Witness ==
    /\ LoggedClose /\ intent = Desactivar
    /\ called_at - prev_start[1] = TicksPerSec
    /\ LoggedItem.Duration = <<2>>
    /\ LoggedItem.WaterVolume = <<8>>

\* C18: after a deactivation whose shadow update to OFF returned, no session
\* is open.
C18_OffMeansClosed ==
    (intent = Desactivar /\ fault /= "update" /\ bomba = Some("OFF")) =>
        start_time_global = None

\* C17: a cold start with a session open leaves no session open, and the
\* deactivation that follows it logs nothing, leaves the session closed and,
\* its shadow update returning, sets OFF and answers "was not active".
C17_ColdStartLosesSession ==
    /\ [](intent = "ColdStart" => start_time_global = None /\ prev_start /= None)
    /\ [][(intent = "ColdStart" /\ intent' = Desactivar) =>
              /\ put_calls' = <<>>
              /\ table' = table
              /\ start_time_global' = None
              /\ (fault' = "none" =>
                      bomba' = Some("OFF") /\ speak_output' = <<"NoActivado">>)]_vars

\* the session of a pump set ON has just been lost, and a deactivation that
\* answers "was not active" can follow
C17_Witness ==
    /\ intent = "ColdStart"
    /\ bomba = Some("ON")
    /\ prev_start /= None
    /\ start_time_global = None
    /\ ENABLED (/\ DesactivarRegadorIntent(TRUE, TRUE, None, TRUE)
                /\ speak_output' = <<"NoActivado">>
                /\ bomba' = Some("OFF")
                /\ put_calls' = <<>>)

\* what each handler can answer
Answers ==
    [LaunchRequest |-> {"Bienvenido"},
     ActivarRegadorIntent |-> {"Activado", "ErrorActivar"},
     DesactivarRegadorIntent |-> {"Desactivado", "NoActivado", "ErrorDesactivar"},
     ConsultarHumedadIntent |-> {"Humedad", "NoHumedad", "ErrorHumedad"}]

\* C12: whichever of the shadow calls, the publish and the put_item an
\* invocation makes raise, it runs to its end, and it ends with one of the
\* spoken answers of its handler, the error answer when a shadow call or
\* the publish raised.
C12_AlwaysAnswers ==
    /\ intent \in DOMAIN Answers => speak_output[1] \in Answers[intent]
    /\ fault /= "none" =>
           speak_output[1] \in {"ErrorActivar", "ErrorDesactivar", "ErrorHumedad"}
    /\ requests < MaxRequests =>
           /\ ENABLED LaunchRequest
           /\ \A updOk \in BOOLEAN : ENABLED ActivarRegadorIntent(updOk)
           /\ \A i \in DesactivarInputs :
                  ENABLED DesactivarRegadorIntent(i[1], i[2], i[3], i[4])
           /\ \A i \in ConsultarInputs :
                  ENABLED ConsultarHumedadIntent(i[1], i[2], i[3], i[4])

\* a deactivation whose shadow read raised after OFF was sent has answered
\* with the error message
C12_Witness ==
    /\ intent = Desactivar /\ fault = "get"
    /\ speak_output = <<"ErrorDesactivar">>
    /\ put_done = 0
    /\ start_time_global /= None
    /\ bomba = Some("OFF")
====
